---- MODULE Spec2Model ----
(***************************************************************************)
(* Job orchestration of the puya-ts compiler server.                       *)
(*                                                                         *)
(* The repository holds two revisions of the server: the later one         *)
(* (src/unnamed/part_000: /compile with suffix filter and cleanup, and     *)
(* /generate-client) and the earlier one (src/server.js: /compile with     *)
(* raw-body recovery, no cleanup).  The variable `variant` says which      *)
(* revision the process runs.                                              *)
(*                                                                         *)
(* Node runs every callback to completion: the synchronous part of a       *)
(* request handler, each child-process event handler and the continuation  *)
(* after `await` are never interleaved with another callback.  `running`   *)
(* holds the job whose synchronous code is executing (NoJob between        *)
(* callbacks).                                                             *)
(*                                                                         *)
(* Text is a sequence of one-character strings.  In captured process       *)
(* output the token "S" stands for an occurrence of the text               *)
(* 'SuppressedError' and every other token for text without it.            *)
(***************************************************************************)
EXTENDS Integers, Sequences, FiniteSets, TLC

\* ------------------------------------------------------------------ bounds
MaxChunks == 2
MaxText == 4
ChunkChars == 16384

\* --------------------------------------------------------------- constants
Jobs == {"job1", "job2"}
NoJob == "nojob"
NoDir == "nodir"
DirNames == {"d1", "d2"}
DEFAULT_FILENAME == <<"c", "o", "n", "t", "r", "a", "c", "t", ".", "a", "l", "g", "o", ".", "t", "s">>
Variants == {"part_000", "server_js"}

\* ------------------------------------------------------------ JS values
Absent == [t |-> "undefined", v |-> <<>>]
Num == [t |-> "number", v |-> <<>>]
Str(s) == [t |-> "string", v |-> s]
IsStr(x) == x.t = "string"
\* JavaScript truthiness of a value of the three kinds above (the number is non-zero)
Truthy(x) == (x.t = "number") \/ (x.t = "string" /\ x.v # <<>>)

\* String.prototype.trim
IsSpace(c) == c \in {" ", "\n", "\t", "\r"}
RECURSIVE TrimLeft(_)
TrimLeft(s) == IF s = <<>> THEN s ELSE IF IsSpace(Head(s)) THEN TrimLeft(Tail(s)) ELSE s
RECURSIVE TrimRight(_)
TrimRight(s) ==
    IF s = <<>> THEN s
    ELSE IF IsSpace(s[Len(s)]) THEN TrimRight(SubSeq(s, 1, Len(s) - 1)) ELSE s
Trim(s) == TrimRight(TrimLeft(s))

\* path.basename (posix): drop trailing slashes, keep what follows the last slash
RECURSIVE StripTrailingSlashes(_)
StripTrailingSlashes(p) ==
    IF p = <<>> THEN p
    ELSE IF p[Len(p)] = "/" THEN StripTrailingSlashes(SubSeq(p, 1, Len(p) - 1)) ELSE p
RECURSIVE AfterLastSlash(_)
AfterLastSlash(p) ==
    IF p = <<>> THEN p
    ELSE IF p[Len(p)] = "/" THEN <<>>
    ELSE Append(AfterLastSlash(SubSeq(p, 1, Len(p) - 1)), p[Len(p)])
basename_noStrip(p) == AfterLastSlash(p)
basename(p) == AfterLastSlash(StripTrailingSlashes(p))

\* String.prototype.endsWith
endsWith(s, suf) ==
    Len(s) >= Len(suf) /\ SubSeq(s, Len(s) - Len(suf) + 1, Len(s)) = suf

\* stderr.includes('SuppressedError') on a sequence of output tokens
includesSuppressed(out) == \E i \in 1..Len(out) : out[i] = "S"

\* String.prototype.replace(/pat/g, rep): leftmost, non-overlapping, one pass
RECURSIVE ReplaceAll(_, _, _)
ReplaceAll(s, pat, rep) ==
    IF Len(s) < Len(pat) THEN s
    ELSE IF SubSeq(s, 1, Len(pat)) = pat
         THEN rep \o ReplaceAll(SubSeq(s, Len(pat) + 1, Len(s)), pat, rep)
         ELSE <<Head(s)>> \o ReplaceAll(Tail(s), pat, rep)

\* indexOf-style containment of a pattern in a text
includes(s, pat) == \E i \in 1..(Len(s) - Len(pat) + 1) : SubSeq(s, i, i + Len(pat) - 1) = pat

ESC_RN == <<"\\", "r", "\\", "n">>
ESC_N == <<"\\", "n">>
ESC_T == <<"\\", "t">>
ESC_Q == <<"\\", "\"">>

\* server.js: "Convert common double-escaped sequences if present"
unescapeChain(s) ==
    ReplaceAll(ReplaceAll(ReplaceAll(ReplaceAll(s, ESC_RN, <<"\r", "\n">>),
                                     ESC_N, <<"\n">>), ESC_T, <<"\t">>), ESC_Q, <<"\"">>)
normalizeDoubleEscapes(s) ==
    IF includes(s, ESC_N) \/ includes(s, ESC_RN) \/ includes(s, ESC_T) \/ includes(s, ESC_Q)
    THEN unescapeChain(s)
    ELSE s

\* ---------------------------------------------------------------- names
OUT == <<"o", "u", "t">>
PACKAGE_JSON == <<"p", "a", "c", "k", "a", "g", "e", ".", "j", "s", "o", "n">>
NODE_MODULES == <<"n", "o", "d", "e", "_", "m", "o", "d", "u", "l", "e", "s">>
CONTRACT_ARC32 == <<"c", "o", "n", "t", "r", "a", "c", "t", ".", "a", "r", "c", "3", "2", ".", "j", "s", "o", "n">>
CLIENT_TS == <<"c", "l", "i", "e", "n", "t", ".", "t", "s">>
SUFFIX_ARC32 == <<".", "a", "r", "c", "3", "2", ".", "j", "s", "o", "n">>
SUFFIX_ARC56 == <<".", "a", "r", "c", "5", "6", ".", "j", "s", "o", "n">>

\* ------------------------------------------------------------ file system
\* A sandbox directory is NoSandbox (absent from the file system) or a record:
\* top maps the names of its direct entries to "file" data or to "dir";
\* out maps relative paths under <dir>/out to file data.
\* `used` records that the name was generated before: a name holds a fresh
\* uuidv4 token and is not generated twice.
NoSandbox == [exists |-> FALSE, used |-> FALSE, top |-> <<>>, out |-> <<>>]
EmptySandbox == [exists |-> TRUE, used |-> TRUE, top |-> <<>>, out |-> <<>>]
Removed == [exists |-> FALSE, used |-> TRUE, top |-> <<>>, out |-> <<>>]
File(data) == [k |-> "file", data |-> data]
Dir == [k |-> "dir", data |-> <<>>]
\* f with name n (re)bound to v
Put(f, n, v) == (n :> v) @@ f
Has(f, n) == n \in DOMAIN f

\* ---------------------------------------------------------------- messages
\* Error messages and response bodies' `error` text: a tag, and for the
\* messages that runCommand builds the exit code and the stderr appended to them.
Msg(m) == [m |-> m, code |-> 0, stderr |-> <<>>]
TimedOutMsg_noStderr(err) == [m |-> "Process timed out after", code |-> 0, stderr |-> <<>>]
TimedOutMsg(err) == [m |-> "Process timed out after", code |-> 0, stderr |-> err]
ExitCodeMsg(code, err) == [m |-> "Process exited with code", code |-> code, stderr |-> err]
SpawnErrorMsg(suppressed) ==
    IF suppressed THEN Msg("spawn error SuppressedError") ELSE Msg("spawn error")
NoMsg == Msg("")

\* ProcessOutcome of one runCommand call (the promise's state)
Pending == [kind |-> "Pending", msg |-> NoMsg, stdout |-> <<>>, stderr |-> <<>>]
Resolved(out, err) == [kind |-> "Success", msg |-> NoMsg, stdout |-> out, stderr |-> err]
Rejected(kind, msg) == [kind |-> kind, msg |-> msg, stdout |-> <<>>, stderr |-> msg.stderr]

\* A response: status, ok, error, the file mapping, and (server.js) meta with
\* the number of characters of stdout and stderr it carries.
NoMeta == [stdout |-> 0, stderr |-> 0]
NoResponse == [status |-> 0, ok |-> FALSE, error |-> NoMsg, files |-> <<>>, meta |-> NoMeta]
Failure(status, msg) == [status |-> status, ok |-> FALSE, error |-> msg, files |-> <<>>, meta |-> NoMeta]
Success(files) == [status |-> 200, ok |-> TRUE, error |-> NoMsg, files |-> files, meta |-> NoMeta]

\* Every token of captured output is one chunk of ChunkChars characters.
CharLen(out) == Len(out) * ChunkChars
\* String.prototype.slice(0, 20000), on lengths
SLICE_LIMIT == 20000
SliceLen(n) == IF n > SLICE_LIMIT THEN SLICE_LIMIT ELSE n
\* server.js: meta = { stdout: result.stdout.slice(0, 20000), stderr: result.stderr.slice(0, 20000), .. }
MetaOf(v, result) ==
    IF v = "server_js"
    THEN [stdout |-> SliceLen(CharLen(result.stdout)), stderr |-> SliceLen(CharLen(result.stderr))]
    ELSE NoMeta
WithMeta(r, meta) == [r EXCEPT !.meta = meta]

\* ------------------------------------------------------------------ inputs
CodeVals == {Absent, Num, Str(<<>>), Str(<<" ">>), Str(<<"x">>), Str(<<"\\", "n">>)}
FilenameVals ==
    {Absent, Num, Str(<<"d", "/", "a">>), Str(<<".", ".">>), Str(OUT), Str(PACKAGE_JSON)}
Arc32Vals == {Absent, Str(<<"j">>)}

\* req.rawBody as tryRecoverCodeFromString and the brace/quote count see it:
\* whether the tolerant extraction finds a "code" segment (and which text and
\* filename it yields), and whether the body has fewer than 5 of the characters " { }
NoRaw == [present |-> FALSE, recovered |-> FALSE, rfilename |-> Absent, rcode |-> <<>>,
          few |-> FALSE, text |-> <<>>]
RawBodies ==
    {NoRaw}
    \cup {[present |-> TRUE, recovered |-> TRUE, rfilename |-> Absent, rcode |-> c,
           few |-> FALSE, text |-> <<"{", "\"", "\"", "\"", "\"", "}">>] : c \in {<<>>, <<"x">>}}
    \cup {[present |-> TRUE, recovered |-> FALSE, rfilename |-> Absent, rcode |-> <<>>,
           few |-> TRUE, text |-> <<"{", "}">>],
          [present |-> TRUE, recovered |-> FALSE, rfilename |-> Absent, rcode |-> <<>>,
           few |-> FALSE, text |-> <<"{", "\"", "\"", "\"", "}">>]}

Request(e, b, c, f, a, r) ==
    [endpoint |-> e, body |-> b, code |-> c, filename |-> f, arc32Json |-> a, raw |-> r]
NoRequest == Request("", "none", Absent, Absent, Absent, NoRaw)
\* The requests a client can send to the running revision.  A body that is an
\* object with a string `code` is decoded without reading rawBody.
Requests(v) ==
    {Request("/compile", "object", c, f, Absent, NoRaw) : c \in {x \in CodeVals : IsStr(x)}, f \in FilenameVals}
    \cup {Request("/compile", "object", c, Absent, Absent, IF v = "server_js" THEN r ELSE NoRaw) :
            c \in {x \in CodeVals : ~IsStr(x)}, r \in RawBodies}
    \cup {Request("/compile", "none", Absent, Absent, Absent, NoRaw)}
    \cup (IF v = "part_000"
          THEN {Request("/generate-client", "object", Absent, Absent, a, NoRaw) : a \in Arc32Vals}
               \cup {Request("/generate-client", "none", Absent, Absent, Absent, NoRaw)}
          ELSE {})

\* --------------------------------------------------------------- state
VARIABLES
    variant,      \* which revision of the server runs
    template,     \* entries present under /tmp/puya-template ("absent": no such dir)
    fnInput,      \* the text a text function is applied to (function-level checks)
    applied,      \* the applications made to fnInput: <<[fn, out], ..>>
    collected,    \* the artifact set the suffix filter is applied to (function-level checks)
    filtered,     \* the results of filtering collected, then the result: <<set, ..>>
    running,      \* job whose synchronous code is executing, or NoJob
    fsys,         \* DirNames -> sandbox directory contents
    pc,           \* job -> position in its handler
    req,          \* job -> the request
    filename,     \* job -> handler local `filename`
    sourceCode,   \* job -> handler local `sourceCode`
    safeFilename, \* job -> handler local `safeFilename`
    tmpRoot,      \* job -> handler local `tmpRoot` (NoDir while undefined)
    caught,       \* job -> message of the error the catch block received
    allArtifacts, \* job -> result of readAllFilesRecursively(outDir)
    artifacts,    \* job -> the files the response is built from
    response,     \* job -> the response sent (NoResponse before)
    log,          \* job -> the file-system and process operations performed, in order
    proc,         \* job -> the child's process: "none", "failed", "running", "exited", "dead"
    exitCode,     \* job -> exit code reported by the close event
    errEv,        \* job -> the error event of a failed spawn: "none", "plain", "suppressed"
    errDone,      \* job -> that error event has been emitted
    closeEv,      \* job -> the child's close event has been emitted
    listeners,    \* job -> the child still has runCommand's listeners
    timeout,      \* job -> runCommand's timer: "unset", "armed", "cleared", "fired"
    stdout,       \* job -> runCommand's `stdout`
    stderr,       \* job -> runCommand's `stderr`
    outcome       \* job -> state of the promise runCommand returned

envVars == <<variant, template, fnInput, applied, collected, filtered>>
jobVars == <<pc, req, filename, sourceCode, safeFilename, tmpRoot, caught, allArtifacts, artifacts, response, log>>
childVars == <<proc, exitCode, errEv, errDone, closeEv, listeners, timeout, stdout, stderr, outcome>>
vars == <<variant, template, fnInput, applied, collected, filtered, running, fsys, pc, req, filename, sourceCode, safeFilename, tmpRoot,
          caught, allArtifacts, artifacts, response, log,
          proc, exitCode, errEv, errDone, closeEv, listeners, timeout, stdout, stderr, outcome>>

Templates == {"absent", "package.json", "both"}

InitJobs(active) ==
    /\ variant \in Variants
    /\ template \in Templates
    /\ fnInput = <<>>
    /\ applied = <<>>
    /\ collected = <<>>
    /\ filtered = <<>>
    /\ running = NoJob
    /\ fsys = [d \in DirNames |-> NoSandbox]
    /\ pc = [j \in Jobs |-> IF j \in active THEN "idle" ELSE "off"]
    /\ req = [j \in Jobs |-> NoRequest]
    /\ filename = [j \in Jobs |-> Str(DEFAULT_FILENAME)]
    /\ sourceCode = [j \in Jobs |-> Str(<<>>)]
    /\ safeFilename = [j \in Jobs |-> <<>>]
    /\ tmpRoot = [j \in Jobs |-> NoDir]
    /\ caught = [j \in Jobs |-> NoMsg]
    /\ allArtifacts = [j \in Jobs |-> <<>>]
    /\ artifacts = [j \in Jobs |-> <<>>]
    /\ response = [j \in Jobs |-> NoResponse]
    /\ log = [j \in Jobs |-> <<>>]
    /\ proc = [j \in Jobs |-> "none"]
    /\ exitCode = [j \in Jobs |-> 0]
    /\ errEv = [j \in Jobs |-> "none"]
    /\ errDone = [j \in Jobs |-> FALSE]
    /\ closeEv = [j \in Jobs |-> FALSE]
    /\ listeners = [j \in Jobs |-> FALSE]
    /\ timeout = [j \in Jobs |-> "unset"]
    /\ stdout = [j \in Jobs |-> <<>>]
    /\ stderr = [j \in Jobs |-> <<>>]
    /\ outcome = [j \in Jobs |-> Pending]

\* One request in flight.
Init == InitJobs({"job1"})

\* ------------------------------------------------------- request handlers
IsCompile(j) == req[j].endpoint = "/compile"
Logged(j, op) == log' = [log EXCEPT ![j] = Append(@, op)]

\* res.status(..).json(..) / res.json(..): the handler returns
Respond(j, r) ==
    /\ response' = [response EXCEPT ![j] = r]
    /\ pc' = [pc EXCEPT ![j] = "Done"]
    /\ running' = NoJob

\* an exception thrown inside the handler's try block
Throw(j, msg) ==
    /\ caught' = [caught EXCEPT ![j] = msg]
    /\ pc' = [pc EXCEPT ![j] = "Catch"]
    /\ running' = running

\* Express calls the route handler with a parsed request
Receive(j, r) ==
    /\ running = NoJob
    /\ pc[j] = "idle"
    /\ r \in Requests(variant)
    /\ req' = [req EXCEPT ![j] = r]
    /\ pc' = [pc EXCEPT ![j] = "Decoding"]
    /\ running' = j
    /\ UNCHANGED <<envVars, fsys, filename, sourceCode, safeFilename, tmpRoot, caught,
                   allArtifacts, artifacts, response, log, childVars>>

\* tryRecoverCodeFromString(req.rawBody): the recovered pair, or null
NullRecovered == [found |-> FALSE, filename |-> Absent, code |-> <<>>]
tryRecoverCodeFromString(raw) ==
    IF raw.present /\ raw.recovered
    THEN [found |-> TRUE, filename |-> raw.rfilename, code |-> raw.rcode]
    ELSE NullRecovered

\* The payload decoding of /compile: <<status, filename, sourceCode>>, status 0
\* when a source text was obtained, else the 4xx answer's message.
BodyHasCode(r) == r.body = "object" /\ IsStr(r.code)
DecodeOk(f, c) == [fail |-> NoMsg, filename |-> f, code |-> c]
DecodeFail(m) == [fail |-> Msg(m), filename |-> Absent, code |-> <<>>]
OrDefault(f) == IF Truthy(f) THEN f ELSE Str(DEFAULT_FILENAME)
ExtractPart000(r) ==
    IF BodyHasCode(r) THEN DecodeOk(OrDefault(r.filename), r.code.v)
    ELSE DecodeFail("Invalid request body")
ExtractServerJs(r) ==
    IF BodyHasCode(r) THEN DecodeOk(OrDefault(r.filename), r.code.v)
    ELSE IF r.raw.present
         THEN LET recovered == tryRecoverCodeFromString(r.raw) IN
              IF recovered.found THEN DecodeOk(OrDefault(recovered.filename), recovered.code)
              ELSE IF r.raw.few THEN DecodeOk(Str(DEFAULT_FILENAME), r.raw.text)
              ELSE DecodeFail("Unable to parse JSON body")
         ELSE DecodeFail("Invalid request body")
\* "Field 'code' must be a non-empty string"
CheckNonEmpty_noTrim(d) ==
    IF d.fail # NoMsg THEN d
    ELSE IF d.code = <<>> THEN DecodeFail("Field 'code' must be a non-empty string")
    ELSE d
CheckNonEmpty(d) ==
    IF d.fail # NoMsg THEN d
    ELSE IF d.code = <<>> \/ Trim(d.code) = <<>> THEN DecodeFail("Field 'code' must be a non-empty string")
    ELSE d
DecodePayload(v, r) ==
    IF v = "part_000" THEN CheckNonEmpty(ExtractPart000(r))
    ELSE LET d == CheckNonEmpty(ExtractServerJs(r)) IN
         IF d.fail # NoMsg THEN d ELSE DecodeOk(d.filename, normalizeDoubleEscapes(d.code))

\* /compile up to the end of validation
DecodeCompile(j) ==
    /\ running = j
    /\ pc[j] = "Decoding"
    /\ IsCompile(j)
    /\ LET d == DecodePayload(variant, req[j]) IN
       IF d.fail # NoMsg
       THEN /\ Respond(j, Failure(400, d.fail))
            /\ UNCHANGED <<filename, sourceCode>>
       ELSE /\ filename' = [filename EXCEPT ![j] = d.filename]
            /\ sourceCode' = [sourceCode EXCEPT ![j] = Str(d.code)]
            /\ pc' = [pc EXCEPT ![j] = "Sanitizing"]
            /\ UNCHANGED <<response, running>>
    /\ UNCHANGED <<envVars, fsys, req, safeFilename, tmpRoot, caught, allArtifacts, artifacts,
                   log, childVars>>

\* /generate-client validation and arc32Content
DecodeGenerateClient(j) ==
    /\ running = j
    /\ pc[j] = "Decoding"
    /\ ~IsCompile(j)
    /\ IF req[j].body # "object" \/ ~Truthy(req[j].arc32Json)
       THEN /\ Respond(j, Failure(400, Msg("Invalid request body")))
            /\ UNCHANGED sourceCode
       ELSE /\ sourceCode' = [sourceCode EXCEPT ![j] = req[j].arc32Json]
            /\ pc' = [pc EXCEPT ![j] = "Sandboxing"]
            /\ UNCHANGED <<response, running>>
    /\ UNCHANGED <<envVars, fsys, req, filename, safeFilename, tmpRoot, caught, allArtifacts,
                   artifacts, log, childVars>>

\* const safeFilename = path.basename(filename) || "contract.algo.ts"
\* (path.basename throws a TypeError when its argument is not a string)
SafeFilenameOf(f) == IF basename(f) = <<>> THEN DEFAULT_FILENAME ELSE basename(f)
Sanitize(j) ==
    /\ running = j
    /\ pc[j] = "Sanitizing"
    /\ IF IsStr(filename[j])
       THEN /\ safeFilename' = [safeFilename EXCEPT ![j] = SafeFilenameOf(filename[j].v)]
            /\ pc' = [pc EXCEPT ![j] = "Sandboxing"]
            /\ UNCHANGED <<caught, running>>
       ELSE /\ Throw(j, Msg("TypeError: path must be a string"))
            /\ UNCHANGED safeFilename
    /\ UNCHANGED <<envVars, fsys, req, filename, sourceCode, tmpRoot, allArtifacts, artifacts,
                   response, log, childVars>>

\* the names mkdtempSync can create: it fails on a path that exists
FreshDirs_any(fs) == DirNames
FreshDirs(fs) == {d \in DirNames : ~fs[d].exists /\ ~fs[d].used}

\* tmpRoot = fs.mkdtempSync(...): a directory that did not exist, or an exception
Mkdtemp(j) ==
    /\ running = j
    /\ pc[j] = "Sandboxing"
    /\ \/ \E d \in FreshDirs(fsys) :
            /\ fsys' = [fsys EXCEPT ![d] = EmptySandbox]
            /\ tmpRoot' = [tmpRoot EXCEPT ![j] = d]
            /\ pc' = [pc EXCEPT ![j] = "Writing"]
            /\ Logged(j, "mkdtemp")
            /\ UNCHANGED <<caught, running>>
       \/ /\ Throw(j, Msg("mkdtemp failed"))
          /\ UNCHANGED <<fsys, tmpRoot, log>>
    /\ UNCHANGED <<envVars, req, filename, sourceCode, safeFilename, allArtifacts, artifacts,
                   response, childVars>>

\* The name the input is written under
InputName(j) == IF IsCompile(j) THEN safeFilename[j] ELSE CONTRACT_ARC32
\* path.join(tmpRoot, name) for a name without separator, normalized: the
\* directory d, the number of levels above it, and the entry name below it
pathJoin(d, name) ==
    IF name = <<".">> THEN [dir |-> d, up |-> 0, name |-> <<>>]
    ELSE IF name = <<".", ".">> THEN [dir |-> d, up |-> 1, name |-> <<>>]
    ELSE [dir |-> d, up |-> 0, name |-> name]
\* const srcPath = path.join(tmpRoot, safeFilename) / arc32Path
srcPath(j) == pathJoin(tmpRoot[j], InputName(j))
\* the path names a directory: tmpRoot itself, its parent, or a directory entry
IsDirectoryPath(sb, p) ==
    \/ p.name = <<>>
    \/ (Has(sb.top, p.name) /\ sb.top[p.name].k = "dir")

\* fs.writeFileSync(srcPath, sourceCode) / fs.writeFileSync(arc32Path, arc32Content)
WriteInput(j) ==
    /\ running = j
    /\ pc[j] = "Writing"
    /\ LET d == tmpRoot[j]
           sb == fsys[d]
       IN \/ /\ ~IsDirectoryPath(sb, srcPath(j))
             /\ fsys' = [fsys EXCEPT ![d].top = Put(@, srcPath(j).name, File(sourceCode[j].v))]
             /\ pc' = [pc EXCEPT ![j] = IF IsCompile(j) THEN "MkdirOut" ELSE "Spawning"]
             /\ Logged(j, "writeFile")
             /\ UNCHANGED <<caught, running>>
          \/ /\ Throw(j, Msg("writeFile failed"))
             /\ UNCHANGED <<fsys, log>>
    /\ UNCHANGED <<envVars, req, filename, sourceCode, safeFilename, tmpRoot, allArtifacts,
                   artifacts, response, childVars>>

\* fs.mkdirSync(outDir, { recursive: true }): EEXIST when outDir is a file
MkdirOut(j) ==
    /\ running = j
    /\ pc[j] = "MkdirOut"
    /\ LET d == tmpRoot[j]
           sb == fsys[d]
       IN \/ /\ ~(Has(sb.top, OUT) /\ sb.top[OUT].k = "file")
             /\ fsys' = [fsys EXCEPT ![d].top = Put(@, OUT, Dir)]
             /\ pc' = [pc EXCEPT ![j] = IF variant = "part_000" THEN "Seeding" ELSE "Spawning"]
             /\ Logged(j, "mkdir")
             /\ UNCHANGED <<caught, running>>
          \/ /\ Throw(j, Msg("mkdir failed"))
             /\ UNCHANGED <<fsys, log>>
    /\ UNCHANGED <<envVars, req, filename, sourceCode, safeFilename, tmpRoot, allArtifacts,
                   artifacts, response, childVars>>

\* Copy pre-seeded template from /tmp/puya-template (part_000 only)
CopyPkg(top) ==
    IF template \in {"package.json", "both"} THEN Put(top, PACKAGE_JSON, File(<<"p", "k", "g">>)) ELSE top
NodeModulesBlocked(top) ==
    template = "both" /\ Has(top, NODE_MODULES) /\ top[NODE_MODULES].k = "file"
CopyNodeModules(top) == IF template = "both" THEN Put(top, NODE_MODULES, Dir) ELSE top
SeedTemplate(j) ==
    /\ running = j
    /\ pc[j] = "Seeding"
    /\ LET d == tmpRoot[j]
           top == fsys[d].top
       IN \/ /\ ~NodeModulesBlocked(CopyPkg(top))
             /\ fsys' = [fsys EXCEPT ![d].top = CopyNodeModules(CopyPkg(top))]
             /\ pc' = [pc EXCEPT ![j] = "Spawning"]
             /\ IF template = "absent" THEN UNCHANGED log ELSE Logged(j, "seed")
             /\ UNCHANGED <<caught, running>>
          \/ /\ template = "both"
             /\ fsys' = [fsys EXCEPT ![d].top = CopyPkg(top)]
             /\ Throw(j, Msg("cp failed"))
             /\ UNCHANGED log
    /\ UNCHANGED <<envVars, req, filename, sourceCode, safeFilename, tmpRoot, allArtifacts,
                   artifacts, response, childVars>>

\* ------------------------------------------------------------- runCommand
ExitCodes == {0, 1}
\* what the compiler / the client generator may write while it runs
OutputNames == {<<"A">> \o SUFFIX_ARC32, <<"A", ".", "t">>}
ErrTokens == {"e", "S"}

\* runCommand(cmd, args, opts) up to the return of the promise: spawn the
\* child, register the listeners, arm the timer.  A spawn that fails leaves an
\* error event queued on the next tick.
Spawn(j) ==
    /\ running = j
    /\ pc[j] = "Spawning"
    /\ \E e \in {"none", "plain", "suppressed"} :
         /\ errEv' = [errEv EXCEPT ![j] = e]
         /\ proc' = [proc EXCEPT ![j] = IF e = "none" THEN "running" ELSE "failed"]
         /\ exitCode' = [exitCode EXCEPT ![j] = IF e = "none" THEN 0 ELSE -2]
    /\ listeners' = [listeners EXCEPT ![j] = TRUE]
    /\ timeout' = [timeout EXCEPT ![j] = "armed"]
    /\ pc' = [pc EXCEPT ![j] = "Invoking"]
    /\ running' = NoJob
    /\ Logged(j, "spawn")
    /\ UNCHANGED <<envVars, fsys, req, filename, sourceCode, safeFilename, tmpRoot, caught,
                   allArtifacts, artifacts, response, errDone, closeEv, stdout, stderr, outcome>>

\* resolve(..) / reject(..): only the first call settles the promise; the
\* awaiting handler continues right after the callback that settled it.
Settle_overwrites(j, o) ==
    /\ outcome' = [outcome EXCEPT ![j] = o]
    /\ pc' = [pc EXCEPT ![j] = "Resumed"]
    /\ running' = j
Settle(j, o) ==
    IF outcome[j].kind = "Pending"
    THEN /\ outcome' = [outcome EXCEPT ![j] = o]
         /\ pc' = [pc EXCEPT ![j] = "Resumed"]
         /\ running' = j
    ELSE UNCHANGED <<outcome, pc, running>>

\* child.stdout.on("data") / child.stderr.on("data"): these listeners are on the
\* streams, child.removeAllListeners() leaves them in place
StdoutData(j) ==
    /\ running = NoJob
    /\ proc[j] \in {"running", "killing", "exited"}
    /\ ~closeEv[j]
    /\ Len(stdout[j]) + Len(stderr[j]) < MaxChunks
    /\ stdout' = [stdout EXCEPT ![j] = Append(@, "o")]
    /\ UNCHANGED <<envVars, running, fsys, jobVars, proc, exitCode, errEv, errDone, closeEv,
                   listeners, timeout, stderr, outcome>>

StderrData(j, c) ==
    /\ running = NoJob
    /\ proc[j] \in {"running", "killing", "exited"}
    /\ ~closeEv[j]
    /\ Len(stdout[j]) + Len(stderr[j]) < MaxChunks
    /\ stderr' = [stderr EXCEPT ![j] = Append(@, c)]
    /\ UNCHANGED <<envVars, running, fsys, jobVars, proc, exitCode, errEv, errDone, closeEv,
                   listeners, timeout, stdout, outcome>>

\* the running child writes a file: the compiler under outDir, the client
\* generator at clientPath
ChildWrites(j, n) ==
    /\ running = NoJob
    /\ proc[j] \in {"running", "killing"}
    /\ tmpRoot[j] # NoDir
    /\ LET d == tmpRoot[j] IN
       /\ fsys[d].exists
       /\ IF IsCompile(j)
          THEN /\ Has(fsys[d].top, OUT) /\ fsys[d].top[OUT].k = "dir"
               /\ ~Has(fsys[d].out, n)
               /\ fsys' = [fsys EXCEPT ![d].out = Put(@, n, <<"j">>)]
          ELSE /\ n = CLIENT_TS
               /\ ~Has(fsys[d].top, n)
               /\ fsys' = [fsys EXCEPT ![d].top = Put(@, n, File(<<"t">>))]
    /\ UNCHANGED <<envVars, running, jobVars, childVars>>

\* the child process terminates: by itself with an exit code, or from SIGKILL
ChildExit(j, code) ==
    /\ running = NoJob
    /\ \/ proc[j] = "running" /\ exitCode' = [exitCode EXCEPT ![j] = code]
       \/ proc[j] = "killing" /\ exitCode' = [exitCode EXCEPT ![j] = -1]
    /\ proc' = [proc EXCEPT ![j] = "exited"]
    /\ UNCHANGED <<envVars, running, fsys, jobVars, errEv, errDone, closeEv, listeners, timeout,
                   stdout, stderr, outcome>>

\* child.on('error'): in part_000 the handler drops an error whose message
\* includes 'SuppressedError' and re-emits the others as 'actualError', whose
\* handler clears the timer and rejects; in server.js it clears and rejects.
ErrorEvent(j) ==
    /\ running = NoJob
    /\ errEv[j] # "none"
    /\ ~errDone[j]
    /\ errDone' = [errDone EXCEPT ![j] = TRUE]
    /\ IF listeners[j] /\ ~(variant = "part_000" /\ errEv[j] = "suppressed")
       THEN /\ timeout' = [timeout EXCEPT ![j] = IF @ = "armed" THEN "cleared" ELSE @]
            /\ Settle(j, Rejected("SpawnFailed", SpawnErrorMsg(errEv[j] = "suppressed")))
       ELSE UNCHANGED <<timeout, outcome, pc, running>>
    /\ UNCHANGED <<envVars, fsys, req, filename, sourceCode, safeFilename, tmpRoot, caught,
                   allArtifacts, artifacts, response, log, proc, exitCode, errEv, closeEv,
                   listeners, stdout, stderr>>

\* the exit outcome the close handler computes
CloseOutcome(v, code, out, err) ==
    IF code # 0 /\ ~(v = "part_000" /\ includesSuppressed(err))
    THEN Rejected("NonZeroExit", ExitCodeMsg(code, err))
    ELSE Resolved(out, err)

\* child.on("close"): emitted once the process has ended and its streams are closed
CloseEvent(j) ==
    /\ running = NoJob
    /\ proc[j] \in {"exited", "failed"}
    /\ (errEv[j] = "none" \/ errDone[j])
    /\ ~closeEv[j]
    /\ closeEv' = [closeEv EXCEPT ![j] = TRUE]
    /\ IF listeners[j]
       THEN /\ timeout' = [timeout EXCEPT ![j] = IF @ = "armed" THEN "cleared" ELSE @]
            /\ Settle(j, CloseOutcome(variant, exitCode[j], stdout[j], stderr[j]))
       ELSE UNCHANGED <<timeout, outcome, pc, running>>
    /\ UNCHANGED <<envVars, fsys, req, filename, sourceCode, safeFilename, tmpRoot, caught,
                   allArtifacts, artifacts, response, log, proc, exitCode, errEv, errDone,
                   listeners, stdout, stderr>>

\* reject(new Error(`Process timed out after ${DEFAULT_TIMEOUT_MS}ms\n${stderr}`))
TimeoutOutcome_noReject(err) == Pending
TimeoutOutcome(err) == Rejected("TimedOut", TimedOutMsg(err))

\* the setTimeout callback; timers run after the next-tick queue, so a queued
\* spawn error is delivered first
TimeoutFires(j) ==
    /\ running = NoJob
    /\ timeout[j] = "armed"
    /\ (errEv[j] = "none" \/ errDone[j])
    /\ listeners' = [listeners EXCEPT ![j] = FALSE]
    /\ proc' = [proc EXCEPT ![j] = IF @ = "running" THEN "killing" ELSE @]
    /\ timeout' = [timeout EXCEPT ![j] = "fired"]
    /\ Settle(j, TimeoutOutcome(stderr[j]))
    /\ UNCHANGED <<envVars, fsys, req, filename, sourceCode, safeFilename, tmpRoot, caught,
                   allArtifacts, artifacts, response, log, exitCode, errEv, errDone, closeEv,
                   stdout, stderr>>

\* ------------------------------------------------- after `await runCommand`
\* the continuation of the handler: the value of the await, or its exception
Resume(j) ==
    /\ running = j
    /\ pc[j] = "Resumed"
    /\ IF outcome[j].kind = "Success"
       THEN /\ pc' = [pc EXCEPT ![j] = "Collecting"]
            /\ UNCHANGED <<caught, running>>
       ELSE Throw(j, outcome[j].msg)
    /\ UNCHANGED <<envVars, fsys, req, filename, sourceCode, safeFilename, tmpRoot, allArtifacts,
                   artifacts, response, log, childVars>>

\* readAllFilesRecursively(dir): relative path -> {encoding, data}; empty when
\* dir does not exist
Artifact(data) == [encoding |-> "utf8", data |-> data]
readAllFilesRecursively(sb) ==
    IF sb.exists /\ Has(sb.top, OUT) /\ sb.top[OUT].k = "dir"
    THEN [n \in DOMAIN sb.out |-> Artifact(sb.out[n])]
    ELSE <<>>

\* Filter only .arc32.json and .arc56.json files
KeepSuffix(n) == endsWith(n, SUFFIX_ARC32) \/ endsWith(n, SUFFIX_ARC56)
FilterArtifacts_flattened(all) ==
    [m \in {basename(n) : n \in {x \in DOMAIN all : KeepSuffix(x)}} |->
        all[CHOOSE n \in DOMAIN all : KeepSuffix(n) /\ basename(n) = m]]
FilterArtifacts(all) == [n \in {m \in DOMAIN all : KeepSuffix(m)} |-> all[n]]

\* /compile: collect the output directory (and filter it, in part_000)
Collect(j) ==
    /\ running = j
    /\ pc[j] = "Collecting"
    /\ IsCompile(j)
    /\ LET all == readAllFilesRecursively(fsys[tmpRoot[j]]) IN
       /\ allArtifacts' = [allArtifacts EXCEPT ![j] = all]
       /\ artifacts' = [artifacts EXCEPT ![j] = IF variant = "part_000" THEN FilterArtifacts(all) ELSE all]
    /\ pc' = [pc EXCEPT ![j] = IF variant = "part_000" THEN "Cleaning" ELSE "Responding"]
    /\ Logged(j, "collect")
    /\ UNCHANGED <<envVars, running, fsys, req, filename, sourceCode, safeFilename, tmpRoot,
                   caught, response, childVars>>

\* fs.existsSync(clientPath)
existsSync_dirOnly(sb, n) == sb.exists
existsSync(sb, n) == sb.exists /\ Has(sb.top, n)
\* /generate-client: read client.ts, or throw when it was not generated
\* (readFileSync itself throws ENOENT on a missing file)
ReadClient(j) ==
    /\ running = j
    /\ pc[j] = "Collecting"
    /\ ~IsCompile(j)
    /\ LET sb == fsys[tmpRoot[j]] IN
       IF ~existsSync(sb, CLIENT_TS)
       THEN /\ Throw(j, Msg("client.ts file was not generated"))
            /\ UNCHANGED <<artifacts, log>>
       ELSE IF ~Has(sb.top, CLIENT_TS)
       THEN /\ Throw(j, Msg("ENOENT: no such file or directory"))
            /\ UNCHANGED <<artifacts, log>>
       ELSE /\ artifacts' = [artifacts EXCEPT ![j] = (CLIENT_TS :> Artifact(sb.top[CLIENT_TS].data))]
            /\ pc' = [pc EXCEPT ![j] = "Cleaning"]
            /\ Logged(j, "collect")
            /\ UNCHANGED <<caught, running>>
    /\ UNCHANGED <<envVars, fsys, req, filename, sourceCode, safeFilename, tmpRoot, allArtifacts,
                   response, childVars>>

\* fs.rmSync(tmpRoot, { recursive: true, force: true }) inside try/catch: the
\* directory is removed, or the call throws and the directory stays
rmSync(fs, d, ok) == IF ok THEN [fs EXCEPT ![d] = Removed] ELSE fs

\* catch (cleanupErr) { console.warn(..) }: the handler goes on to the
\* response whether or not the removal threw
AfterCleanup_propagates(ok) == IF ok THEN "Responding" ELSE "Catch"
AfterCleanup(ok) == "Responding"
\* "Cleanup temp directory" on the normal path (part_000)
Cleanup(j) ==
    /\ running = j
    /\ pc[j] = "Cleaning"
    /\ \E ok \in BOOLEAN :
        /\ fsys' = rmSync(fsys, tmpRoot[j], ok)
        /\ pc' = [pc EXCEPT ![j] = AfterCleanup(ok)]
    /\ Logged(j, "rm")
    /\ UNCHANGED <<envVars, running, req, filename, sourceCode, safeFilename, tmpRoot, caught,
                   allArtifacts, artifacts, response, childVars>>

\* the answer after a successful run: 500 when no artifact is left, else
\* res.json(..), which throws when the body cannot be serialized
NoArtifactsMsg(v) ==
    IF v = "part_000" THEN Msg("No .arc32.json or .arc56.json files produced")
    ELSE Msg("No artifacts produced")
\* Object.keys(artifacts).length === 0
NoneProduced_unfiltered(j) == DOMAIN allArtifacts[j] = {}
NoneProduced(j) == DOMAIN artifacts[j] = {}
RespondResult(j) ==
    /\ running = j
    /\ pc[j] = "Responding"
    /\ IF IsCompile(j) /\ NoneProduced(j)
       THEN /\ Respond(j, WithMeta(Failure(500, NoArtifactsMsg(variant)), MetaOf(variant, outcome[j])))
            /\ UNCHANGED caught
       ELSE \/ /\ Respond(j, WithMeta(Success(artifacts[j]), MetaOf(variant, outcome[j])))
               /\ UNCHANGED caught
            \/ /\ Throw(j, Msg("RangeError: Invalid string length"))
               /\ UNCHANGED response
    /\ UNCHANGED <<envVars, fsys, req, filename, sourceCode, safeFilename, tmpRoot, allArtifacts,
                   artifacts, log, childVars>>

\* res.status(500).json({ ok: false, error: err.message || String(err) })
CatchResponse_generic(msg) == Failure(500, Msg("Internal Server Error"))
CatchResponse(msg) == Failure(500, msg)

\* the catch block: part_000 removes tmpRoot when it is set, then both
\* revisions answer 500 with the error's message
Catch(j) ==
    /\ running = j
    /\ pc[j] = "Catch"
    /\ IF variant = "part_000" /\ tmpRoot[j] # NoDir
       THEN /\ \E ok \in BOOLEAN : fsys' = rmSync(fsys, tmpRoot[j], ok)
            /\ Logged(j, "rm")
       ELSE UNCHANGED <<fsys, log>>
    /\ Respond(j, CatchResponse(caught[j]))
    /\ UNCHANGED <<envVars, req, filename, sourceCode, safeFilename, tmpRoot, caught,
                   allArtifacts, artifacts, childVars>>

\* ------------------------------------------------------------ specification
Next ==
    \E j \in Jobs :
        \/ \E r \in Requests(variant) : Receive(j, r)
        \/ DecodeCompile(j)
        \/ DecodeGenerateClient(j)
        \/ Sanitize(j)
        \/ Mkdtemp(j)
        \/ WriteInput(j)
        \/ MkdirOut(j)
        \/ SeedTemplate(j)
        \/ Spawn(j)
        \/ StdoutData(j)
        \/ \E c \in ErrTokens : StderrData(j, c)
        \/ \E n \in OutputNames \cup {CLIENT_TS} : ChildWrites(j, n)
        \/ \E code \in ExitCodes : ChildExit(j, code)
        \/ ErrorEvent(j)
        \/ CloseEvent(j)
        \/ TimeoutFires(j)
        \/ Resume(j)
        \/ Collect(j)
        \/ ReadClient(j)
        \/ Cleanup(j)
        \/ RespondResult(j)
        \/ Catch(j)

Spec == Init /\ [][Next]_vars

TypeOK ==
    /\ variant \in Variants
    /\ running \in Jobs \cup {NoJob}
    /\ \A j \in Jobs : tmpRoot[j] \in DirNames \cup {NoDir}
    /\ \A j \in Jobs : outcome[j].kind \in {"Pending", "Success", "NonZeroExit", "TimedOut", "SpawnFailed"}

\* Two requests in flight at once: every handler step and every child event
\* that touches the file system or ends an invocation, for well-formed requests.
ConcRequests(v) ==
    {r \in Requests(v) : r.body = "object" /\ r.filename = Absent
                          /\ (r.code = Str(<<"x">>) \/ r.arc32Json # Absent)}
InitConc == InitJobs(Jobs) /\ template # "both"
NextConc ==
    \E j \in Jobs :
        \/ \E r \in ConcRequests(variant) : Receive(j, r)
        \/ DecodeCompile(j)
        \/ DecodeGenerateClient(j)
        \/ Sanitize(j)
        \/ Mkdtemp(j)
        \/ WriteInput(j)
        \/ MkdirOut(j)
        \/ SeedTemplate(j)
        \/ Spawn(j)
        \/ \E n \in {<<"A">> \o SUFFIX_ARC32, CLIENT_TS} : ChildWrites(j, n)
        \/ \E code \in ExitCodes : ChildExit(j, code)
        \/ ErrorEvent(j)
        \/ CloseEvent(j)
        \/ TimeoutFires(j)
        \/ Resume(j)
        \/ Collect(j)
        \/ ReadClient(j)
        \/ Cleanup(j)
        \/ RespondResult(j)
        \/ Catch(j)
SpecConc == InitConc /\ [][NextConc]_vars

\* the event loop always runs a due timer and the next-tick queue
LiveSpec == Spec /\ \A j \in Jobs : WF_vars(TimeoutFires(j)) /\ WF_vars(ErrorEvent(j))

\* ------------------------------------------------------------------ claims
Count(seq, x) == Cardinality({i \in 1..Len(seq) : seq[i] = x})
Ended(j) == pc[j] = "Done"
CreatedSandbox(j) == Count(log[j], "mkdtemp") > 0

\* C1: once the response of a job that created a sandbox has been produced,
\* the sandbox directory does not exist.
C1_SandboxAbsentAfterResponse ==
    \A j \in Jobs : (Ended(j) /\ CreatedSandbox(j)) => ~fsys[tmpRoot[j]].exists

\* C2: a job that created a sandbox has invoked the removal exactly once
\* when it ends.
C2_DestroyExactlyOnce ==
    \A j \in Jobs : (Ended(j) /\ CreatedSandbox(j)) => Count(log[j], "rm") = 1

\* C3: the step in which the timer fires sends SIGKILL to a running child and
\* settles the promise as timed out with exactly the stderr captured so far;
\* the job that timed out answers ok:false with an error containing "timed out".
C3_TimerStep ==
    \A j \in Jobs :
        (timeout[j] = "armed" /\ timeout'[j] = "fired") =>
            /\ outcome'[j].kind = "TimedOut"
            /\ outcome'[j].msg.m = "Process timed out after"
            /\ outcome'[j].msg.stderr = stderr[j]
            /\ proc'[j] # "running"
C3_TimedOutAnswer ==
    \A j \in Jobs :
        (Ended(j) /\ timeout[j] = "fired") =>
            /\ ~response[j].ok
            /\ response[j].error.m = "Process timed out after"
            /\ response[j].error.stderr = outcome[j].msg.stderr
\* C3: the timer step and the timed-out answer together
C3_TimeoutKillsAndReports == [][C3_TimerStep]_vars /\ []C3_TimedOutAnswer
C3_Witness ==
    \E j \in Jobs : Ended(j) /\ timeout[j] = "fired" /\ proc[j] = "killing"
                    /\ response[j].error.stderr # <<>>

\* C4: the outcome of an invocation is one of the four kinds, and once
\* settled no later error event, close event or timer changes it.
C4_SettledStep ==
    \A j \in Jobs : outcome[j].kind # "Pending" => outcome'[j] = outcome[j]
C4_OneKind ==
    \A j \in Jobs : outcome[j].kind \in {"Pending", "Success", "NonZeroExit", "TimedOut", "SpawnFailed"}
\* C4: one kind of outcome, never changed once settled
C4_ExactlyOneOutcome == [][C4_SettledStep]_vars /\ []C4_OneKind
C4_Witness ==
    \E j \in Jobs : outcome[j].kind = "SpawnFailed" /\ closeEv[j] /\ exitCode[j] # 0

\* C5: a child that exits with a non-zero code before the timeout gives the
\* outcome NonZeroExit with that code and the captured stderr.
ClosedBeforeTimeout(j) == closeEv[j] /\ proc[j] = "exited" /\ timeout[j] = "cleared"
\* C5: non-zero exit before the timeout is reported as NonZeroExit
C5_NonZeroExitReported ==
    \A j \in Jobs :
        (ClosedBeforeTimeout(j) /\ exitCode[j] # 0) =>
            /\ outcome[j].kind = "NonZeroExit"
            /\ outcome[j].msg.code = exitCode[j]
            /\ outcome[j].msg.stderr = stderr[j]

C7_SettledWhenTimerFired ==
    \A j \in Jobs : timeout[j] = "fired" => outcome[j].kind # "Pending"
\* C7: settled when the timer has fired, and eventually settled
C7_AlwaysSettles ==
    /\ []C7_SettledWhenTimerFired
    /\ \A j \in Jobs : (pc[j] = "Invoking") ~> (outcome[j].kind # "Pending")
C7_Witness ==
    \E j \in Jobs : timeout[j] = "fired" /\ proc[j] = "killing" /\ ~closeEv[j]
                    /\ stdout[j] = <<>> /\ stderr[j] = <<>> /\ outcome[j].kind = "TimedOut"

\* C8: a /compile job whose payload yields no source text, or a blank one,
\* answers with a failure and never creates a directory or writes a file.
C8_SourceObtained(v, r) ==
    IF BodyHasCode(r) THEN r.code
    ELSE IF v = "server_js" /\ r.raw.present /\ r.raw.recovered THEN Str(r.raw.rcode)
    ELSE IF v = "server_js" /\ r.raw.present /\ r.raw.few THEN Str(r.raw.text)
    ELSE Absent
C8_DecodingFails(v, r) ==
    ~IsStr(C8_SourceObtained(v, r)) \/ Trim(C8_SourceObtained(v, r).v) = <<>>
\* C8: a failed decoding ends in a 400 answer with no file-system operation
C8_NoSandboxOnDecodeFailure ==
    \A j \in Jobs :
        (pc[j] \notin {"idle", "off"} /\ IsCompile(j) /\ C8_DecodingFails(variant, req[j])) =>
            /\ log[j] = <<>>
            /\ tmpRoot[j] = NoDir
            /\ \A d \in DirNames : ~fsys[d].exists
            /\ pc[j] \in {"Decoding", "Done"}
            /\ Ended(j) => (~response[j].ok /\ response[j].status = 400)
C8_Witness ==
    \E j \in Jobs : Ended(j) /\ IsCompile(j) /\ req[j].code = Str(<<" ">>) /\ response[j].status = 400

\* C9: a /compile job whose invocation ended as NonZeroExit, TimedOut or
\* SpawnFailed answers ok:false with the outcome's message (exit code and
\* captured stderr), never collects and returns no artifact.
C9_FailedInvocationFails ==
    \A j \in Jobs :
        (Ended(j) /\ IsCompile(j) /\ outcome[j].kind \in {"NonZeroExit", "TimedOut", "SpawnFailed"}) =>
            /\ ~response[j].ok
            /\ response[j].status = 500
            /\ response[j].error = outcome[j].msg
            /\ (outcome[j].kind = "NonZeroExit" =>
                   response[j].error.code = exitCode[j] /\ response[j].error.stderr = stderr[j])
            /\ Count(log[j], "collect") = 0
            /\ DOMAIN response[j].files = {}
            /\ DOMAIN allArtifacts[j] = {}
C9_Witness ==
    \E j \in Jobs : Ended(j) /\ IsCompile(j) /\ outcome[j].kind = "NonZeroExit"
                    /\ response[j].error.stderr # <<>> /\ response[j].error.code = 1

\* C10: after a Success invocation, an empty collected set, or one that the
\* revision's suffix filter leaves empty, gives the no-artifacts failure; no
\* success response has an empty file mapping.
C10_Kept(v, all) == IF v = "part_000" THEN {n \in DOMAIN all : KeepSuffix(n)} ELSE DOMAIN all
\* C10: nothing left to return after a Success invocation is a failure answer
C10_NoArtifactsIsFailure ==
    \A j \in Jobs :
        (Ended(j) /\ IsCompile(j)) =>
            /\ (outcome[j].kind = "Success" /\ C10_Kept(variant, allArtifacts[j]) = {}) =>
                   /\ ~response[j].ok
                   /\ response[j].status = 500
                   /\ response[j].error.m \in {"No .arc32.json or .arc56.json files produced",
                                               "No artifacts produced"}
            /\ response[j].ok => DOMAIN response[j].files # {}
C10_Witness ==
    \E j \in Jobs : Ended(j) /\ IsCompile(j) /\ outcome[j].kind = "Success"
                    /\ DOMAIN allArtifacts[j] # {} /\ ~response[j].ok
                    /\ response[j].error.m = "No .arc32.json or .arc56.json files produced"

\* C11: the file mapping of a successful /compile answer is exactly the
\* collected files whose relative path ends in .arc32.json or .arc56.json,
\* each with its content.
C11_Matching(all) == {n \in DOMAIN all : endsWith(n, SUFFIX_ARC32) \/ endsWith(n, SUFFIX_ARC56)}
C11_OnlyMatchingFilesReturned ==
    \A j \in Jobs :
        (Ended(j) /\ IsCompile(j) /\ response[j].ok) =>
            /\ DOMAIN response[j].files = C11_Matching(allArtifacts[j])
            /\ \A n \in DOMAIN response[j].files : response[j].files[n] = allArtifacts[j][n]

\* C12: a failure caused by the client's input is answered 4xx and every
\* other failure 5xx.
C12_InputCaused(j) ==
    \/ response[j].error.m \in {"Invalid request body", "Unable to parse JSON body",
                                "Field 'code' must be a non-empty string"}
    \/ response[j].error.m = "TypeError: path must be a string"
    \/ (response[j].error.m = "writeFile failed" /\ IsCompile(j)
        /\ safeFilename[j] \in {<<".">>, <<".", ".">>})
C12_StatusClasses ==
    \A j \in Jobs :
        (Ended(j) /\ ~response[j].ok) =>
            IF C12_InputCaused(j) THEN response[j].status \in 400..499
            ELSE response[j].status \in 500..599

\* C13: the file-system and process operations of a job follow the order
\* sandbox creation and seeding, writing the input, invoking, collecting,
\* cleaning.
C13_Rank(op) ==
    IF op \in {"mkdtemp", "seed"} THEN 1
    ELSE IF op \in {"writeFile", "mkdir"} THEN 2
    ELSE IF op = "spawn" THEN 3
    ELSE IF op = "collect" THEN 4
    ELSE 5
C13_StepsInOrder ==
    \A j \in Jobs :
        \A i \in 1..Len(log[j]) : \A k \in 1..Len(log[j]) :
            i < k => C13_Rank(log[j][i]) <= C13_Rank(log[j][k])

\* C14: concurrent jobs never have the same working directory, and a step
\* that changes a sandbox directory is a step of the job that owns it (its
\* handler or its child process).
C14_DistinctDirs ==
    \A j1 \in Jobs : \A j2 \in Jobs :
        (j1 # j2 /\ tmpRoot[j1] # NoDir) => tmpRoot[j1] # tmpRoot[j2]
C14_OwnDirStep ==
    \A d \in DirNames :
        fsys'[d] # fsys[d] =>
            IF running # NoJob THEN tmpRoot'[running] = d
            ELSE \E j \in Jobs : tmpRoot[j] = d /\ proc[j] \in {"running", "killing"}
\* C14: distinct working directories, each touched only by its own job
C14_JobsIsolated == []C14_DistinctDirs /\ [][C14_OwnDirStep]_vars
C14_Witness ==
    \E j1 \in Jobs : \E j2 \in Jobs :
        /\ j1 # j2
        /\ pc[j1] = "Invoking" /\ pc[j2] = "Invoking"
        /\ IsCompile(j1) /\ ~IsCompile(j2)
        /\ fsys[tmpRoot[j1]].exists /\ fsys[tmpRoot[j2]].exists
        /\ DOMAIN fsys[tmpRoot[j1]].out # {}

\* C15: no failure response carries more than the fixed bound of characters
\* of a captured log.
C15_FailureLogsBounded ==
    \A j \in Jobs :
        (Ended(j) /\ ~response[j].ok) =>
            /\ CharLen(response[j].error.stderr) <= SLICE_LIMIT
            /\ response[j].meta.stdout <= SLICE_LIMIT
            /\ response[j].meta.stderr <= SLICE_LIMIT

\* C16: for a body with a non-blank string code, the text written to the
\* sandbox as the compiler's input is that code, character for character.
C16_SourceWrittenUnchanged ==
    \A j \in Jobs :
        (IsCompile(j) /\ pc[j] = "MkdirOut" /\ BodyHasCode(req[j])) =>
            /\ Has(fsys[tmpRoot[j]].top, safeFilename[j])
            /\ fsys[tmpRoot[j]].top[safeFilename[j]].data = req[j].code.v

\* ------------------------------------------------- the text functions alone
\* The double-escape normalization and the filename sanitization applied to
\* every text of at most MaxText characters over TextChars.
TextChars == {"\\", "\"", "n", "/", ".", "a"}
Texts == UNION {[1..n -> TextChars] : n \in 0..MaxText}
\* what readAllFilesRecursively can return: relative paths, in the output
\* directory or below it, with and without the two suffixes
ArtifactNames ==
    {<<"A">> \o SUFFIX_ARC32, <<"B">> \o SUFFIX_ARC56, <<"A", ".", "t">>,
     <<"d", "/", "A">> \o SUFFIX_ARC32}
ArtifactSets == UNION {[ns -> {Artifact(<<"j">>)}] : ns \in SUBSET ArtifactNames}
InitPure ==
    /\ variant = "server_js"
    /\ template = "absent"
    /\ \/ fnInput \in Texts /\ collected = <<>>
       \/ fnInput = <<>> /\ collected \in ArtifactSets
    /\ applied = <<>>
    /\ filtered = <<>>
    /\ running = NoJob
    /\ fsys = [d \in DirNames |-> NoSandbox]
    /\ pc = [j \in Jobs |-> "off"]
    /\ req = [j \in Jobs |-> NoRequest]
    /\ filename = [j \in Jobs |-> Str(DEFAULT_FILENAME)]
    /\ sourceCode = [j \in Jobs |-> Str(<<>>)]
    /\ safeFilename = [j \in Jobs |-> <<>>]
    /\ tmpRoot = [j \in Jobs |-> NoDir]
    /\ caught = [j \in Jobs |-> NoMsg]
    /\ allArtifacts = [j \in Jobs |-> <<>>]
    /\ artifacts = [j \in Jobs |-> <<>>]
    /\ response = [j \in Jobs |-> NoResponse]
    /\ log = [j \in Jobs |-> <<>>]
    /\ proc = [j \in Jobs |-> "none"]
    /\ exitCode = [j \in Jobs |-> 0]
    /\ errEv = [j \in Jobs |-> "none"]
    /\ errDone = [j \in Jobs |-> FALSE]
    /\ closeEv = [j \in Jobs |-> FALSE]
    /\ listeners = [j \in Jobs |-> FALSE]
    /\ timeout = [j \in Jobs |-> "unset"]
    /\ stdout = [j \in Jobs |-> <<>>]
    /\ stderr = [j \in Jobs |-> <<>>]
    /\ outcome = [j \in Jobs |-> Pending]

Application(fn, out) == [fn |-> fn, out |-> out]
\* server.js lines 179-182 applied to a source text, then to its own result
ApplyNormalize ==
    /\ Len(applied) < 2
    /\ filtered = <<>>
    /\ \A i \in 1..Len(applied) : applied[i].fn = "normalize"
    /\ LET arg == IF applied = <<>> THEN fnInput ELSE applied[Len(applied)].out IN
       applied' = Append(applied, Application("normalize", normalizeDoubleEscapes(arg)))
    /\ UNCHANGED <<variant, template, fnInput, collected, filtered, running, fsys, jobVars, childVars>>
\* filename = req.body.filename || filename; safeFilename = path.basename(filename) || default
ApplySafeFilename ==
    /\ applied = <<>>
    /\ filtered = <<>>
    /\ applied' = <<Application("safeFilename", SafeFilenameOf(OrDefault(Str(fnInput)).v))>>
    /\ UNCHANGED <<variant, template, fnInput, collected, filtered, running, fsys, jobVars, childVars>>
\* part_000 lines 183-189 applied to a collected set, then to its own
\* result; the loop reads allArtifacts and builds a new object
ApplyFilter ==
    /\ applied = <<>>
    /\ Len(filtered) < 2
    /\ LET arg == IF filtered = <<>> THEN collected ELSE filtered[Len(filtered)] IN
       filtered' = Append(filtered, FilterArtifacts(arg))
    /\ UNCHANGED <<variant, template, fnInput, applied, collected, running, fsys, jobVars, childVars>>
NextPure == ApplyNormalize \/ ApplySafeFilename \/ ApplyFilter
SpecPure == InitPure /\ [][NextPure]_vars

\* C17: normalizing the normalized source returns it unchanged.
C17_NormalizeIdempotent ==
    (Len(applied) = 2 /\ applied[1].fn = "normalize") => applied[2].out = applied[1].out

\* C18: the name the source is written under is the final path component of
\* the client's filename (what follows the last separator once trailing
\* separators are dropped), or the default name when the filename is empty
\* or has no such component.
C18_FinalComponents(p) ==
    {SubSeq(p, i + 1, k) : <<i, k>> \in
        {ik \in (0..Len(p)) \X (0..Len(p)) :
            /\ ik[1] <= ik[2]
            /\ \A m \in (ik[2] + 1)..Len(p) : p[m] = "/"
            /\ (ik[2] = 0 \/ p[ik[2]] # "/")
            /\ \A m \in (ik[1] + 1)..ik[2] : p[m] # "/"
            /\ (ik[1] = 0 \/ p[ik[1]] = "/")}}
C18_Expected(p) ==
    IF C18_FinalComponents(p) = {<<>>} THEN {DEFAULT_FILENAME} ELSE C18_FinalComponents(p) \ {<<>>}
C18_WrittenNameIsFinalComponent ==
    (applied # <<>> /\ applied[1].fn = "safeFilename") => C18_Expected(fnInput) = {applied[1].out}
C18_Witness ==
    /\ fnInput = <<".", ".", "/", "a">>
    /\ applied = <<Application("safeFilename", <<"a">>)>>

\* C19: a generate-client job whose command succeeded leaves the read of
\* client.ts either with the "client.ts file was not generated" error, when
\* the file is absent, or with the single entry client.ts holding the file's
\* content; the first is answered as a failure carrying that error, and a
\* success answer carries exactly the entry that was read.
C19_MISSING == "client.ts file was not generated"
C19_ReadStep ==
    \A j \in Jobs :
        (pc[j] = "Collecting" /\ ~IsCompile(j) /\ pc'[j] # "Collecting") =>
            IF fsys[tmpRoot[j]].exists /\ CLIENT_TS \in DOMAIN fsys[tmpRoot[j]].top
            THEN /\ pc'[j] = "Cleaning"
                 /\ caught'[j] = caught[j]
                 /\ artifacts'[j] =
                        (CLIENT_TS :> [encoding |-> "utf8", data |-> fsys[tmpRoot[j]].top[CLIENT_TS].data])
            ELSE /\ pc'[j] = "Catch"
                 /\ caught'[j].m = C19_MISSING
C19_Answer ==
    \A j \in Jobs :
        (Ended(j) /\ ~IsCompile(j)) =>
            /\ caught[j].m = C19_MISSING =>
                   (~response[j].ok /\ response[j].status = 500 /\ response[j].error.m = C19_MISSING)
            /\ response[j].ok =>
                   (DOMAIN response[j].files = {CLIENT_TS} /\ response[j].files = artifacts[j])
C19_ExpectedOutputChecked == []C19_Answer /\ [][C19_ReadStep]_vars
C19_Witness ==
    \E j \in Jobs :
        /\ Ended(j) /\ ~IsCompile(j)
        /\ outcome[j].kind = "Success" /\ exitCode[j] = 0
        /\ caught[j].m = C19_MISSING
        /\ ~response[j].ok

\* C20: the removal of the sandbox changes nothing the response is made of,
\* and goes on to the same point of the handler whether it threw or not; two
\* jobs that got the same request and the same results give the same
\* response, whether or not their sandboxes were removed.
C20_Removes(j) == Count(log'[j], "rm") > Count(log[j], "rm")
C20_RemovalStep ==
    \A j \in Jobs :
        C20_Removes(j) =>
            /\ caught'[j] = caught[j] /\ artifacts'[j] = artifacts[j] /\ outcome'[j] = outcome[j]
            /\ pc[j] = "Cleaning" => (pc'[j] = "Responding" /\ response'[j] = response[j])
            /\ pc[j] = "Catch" =>
                   (pc'[j] = "Done" /\ response'[j].status = 500 /\ response'[j].error = caught[j])
C20_SameAnswer ==
    \A j1 \in Jobs : \A j2 \in Jobs :
        (/\ Ended(j1) /\ Ended(j2)
         /\ req[j1] = req[j2] /\ caught[j1] = caught[j2]
         /\ artifacts[j1] = artifacts[j2] /\ outcome[j1] = outcome[j2]) =>
            response[j1] = response[j2]
C20_RemovalFailureIsSilent == []C20_SameAnswer /\ [][C20_RemovalStep]_vars
C20_Witness ==
    \E j1 \in Jobs : \E j2 \in Jobs :
        /\ Ended(j1) /\ Ended(j2)
        /\ req[j1] = req[j2]
        /\ Count(log[j1], "rm") > 0 /\ Count(log[j2], "rm") > 0
        /\ fsys[tmpRoot[j1]].exists /\ ~fsys[tmpRoot[j2]].exists
        /\ response[j1].ok /\ response[j2] = response[j1]

\* C21: the suffix filter returns a subset of the collected set with the
\* values unchanged, leaves the collected set as it was, and applied to its
\* own result returns that result.
C21_FilterStep == filtered' # filtered => collected' = collected
C21_Filtered ==
    /\ \A i \in 1..Len(filtered) :
           /\ DOMAIN filtered[i] \subseteq DOMAIN collected
           /\ \A n \in DOMAIN filtered[i] : filtered[i][n] = collected[n]
    /\ Len(filtered) = 2 => filtered[2] = filtered[1]
C21_FilterIdempotent == []C21_Filtered /\ [][C21_FilterStep]_vars
C21_Witness ==
    /\ Len(filtered) = 2
    /\ DOMAIN filtered[1] # {}
    /\ DOMAIN filtered[1] # DOMAIN collected

\* C22: the path at which a compile job writes its source file is an entry
\* directly inside the job's working directory: not the directory itself,
\* not a level above it, and with no separator in the entry name.
C22_DirectChild(p, d) ==
    /\ p.dir = d
    /\ p.up = 0
    /\ p.name # <<>>
    /\ \A i \in 1..Len(p.name) : p.name[i] # "/"
C22_WritePathInsideWorkdir ==
    \A j \in Jobs :
        (IsCompile(j) /\ pc[j] = "Writing") => C22_DirectChild(srcPath(j), tmpRoot[j])

\* C23: when the compiler is about to be invoked, the input file exists in
\* the sandbox as a file holding the job's source text, and the source file
\* is not in the way of creating the output directory.
C23_SourceIntactAtInvoke ==
    \A j \in Jobs :
        IsCompile(j) =>
            /\ pc[j] = "MkdirOut" =>
                   ~(OUT \in DOMAIN fsys[tmpRoot[j]].top /\ fsys[tmpRoot[j]].top[OUT].k = "file")
            /\ pc[j] = "Spawning" =>
                   /\ safeFilename[j] \in DOMAIN fsys[tmpRoot[j]].top
                   /\ fsys[tmpRoot[j]].top[safeFilename[j]] = [k |-> "file", data |-> sourceCode[j].v]

\* C24: a step that removes a job's sandbox directory is taken only when the
\* job's subprocess has terminated (it is neither running nor killed and
\* not yet gone).
C24_RemovalStep ==
    \A j \in Jobs :
        Len(log'[j]) > Len(log[j]) /\ log'[j][Len(log'[j])] = "rm" =>
            proc[j] \notin {"running", "killing"}
C24_SubprocessGoneAtRemoval == [][C24_RemovalStep]_vars

====
